---- MODULE Spec2Model ----
(***************************************************************************)
(* Model of examples/topology.rs of rust-cpuid: the driver (main), the      *)
(* legacy (xAPIC) and extended (x2APIC) enumerations, the per-processor id  *)
(* collectors and cpuid_bits_needed.                                        *)
(*                                                                          *)
(* Machine words are modelled as the set of their set bit positions, so a   *)
(* u32 is a subset of 0..31 and a u8 a subset of 0..7: shifts, complements  *)
(* and masks keep their width, with no number above 2^31 - 1 anywhere.     *)
(***************************************************************************)
EXTENDS Integers, Sequences, FiniteSets, TLC

VARIABLES
  \* the machine the program runs on (fixed after Init)
  topology, core_ids, debug_build,
  \* main
  pc, panic_msg, calls, mainIdx,
  \* enumerate_with_xapic_ids
  limits, smt_mask_width, core_mask_width,
  smt_select_mask, core_only_select_mask, pkg_select_mask, xapic_out,
  \* enumerate_with_x2apic_ids
  scanIdx, smt_x2apic_shift, core_x2apic_shift, x2apic_out,
  \* gather_all_xapic_ids / gather_all_x2apic_ids
  gmode, ids, nspawned, njoined, upc, pinRes, readRes, ranOn, ret,
  \* cpuid_bits_needed, run one loop iteration at a time
  b_count, b_mask, b_cnt, b_steps, b_pc,
  \* the mask and decomposition arithmetic of lines 94-100 on its own
  d_smt_shift, d_core_shift, d_fields, d_id, d_masks, d_out, d_pc

hwVars   == <<topology, core_ids, debug_build>>
mainVars == <<pc, panic_msg, calls, mainIdx>>
xapicVars == <<limits, smt_mask_width, core_mask_width,
               smt_select_mask, core_only_select_mask, pkg_select_mask, xapic_out>>
x2Vars   == <<scanIdx, smt_x2apic_shift, core_x2apic_shift, x2apic_out>>
collVars == <<gmode, ids, nspawned, njoined, upc, pinRes, readRes, ranOn, ret>>
bitsVars == <<b_count, b_mask, b_cnt, b_steps, b_pc>>
decVars  == <<d_smt_shift, d_core_shift, d_fields, d_id, d_masks, d_out, d_pc>>
vars == <<hwVars, mainVars, xapicVars, x2Vars, collVars, bitsVars, decVars>>

\* Option<T>: None is the empty sequence, Some(v) the one-element sequence
None == <<>>
Some(v) == <<v>>

----------------------------------------------------------------------------
(* Bounds of the model *)

\* most logical processors the affinity crate enumerates
MaxCpus == 2
\* most levels the extended-topology leaf reports
MaxLevels == 2
\* largest max_logical_processor_ids of the legacy width check
MaxLogical == 128
\* sampled field values 0 .. MaxField-1 (plus the all-ones value of a field)
MaxField == 3

----------------------------------------------------------------------------
(* Machine words *)

\* bits of a u32 (u32::max_value() has them all set)
U32Bits == 32
\* bits of a u8 (u8::max_value() has them all set)
U8Bits == 8

Word(w) == 0 .. (w - 1)

\* x << s and x >> s on a w-bit word, s < w
Shl(x, s, w) == {b + s : b \in x} \cap Word(w)
Shr(x, s) == {b - s : b \in {c \in x : c >= s}}
\* !x, x & y, x ^ y
Not(x, w) == Word(w) \ x
And(x, y) == x \cap y
Xor(x, y) == (x \ y) \cup (y \ x)

\* a number below 2^31 as a word, and back
ToBits(n) == {i \in 0 .. 30 : (n \div (2 ^ i)) % 2 = 1}
RECURSIVE FromBits(_)
FromBits(x) ==
  IF x = {} THEN 0
  ELSE LET b == CHOOSE c \in x : TRUE IN (2 ^ b) + FromBits(x \ {b})

----------------------------------------------------------------------------
(* cpuid_bits_needed *)

\* the loop condition: (cnt > 0) && ((mask & count) != mask)
ScanCond_NoZero(mask, cnt, count) ==
  (cnt > 1) /\ (FromBits(And(ToBits(mask), ToBits(count))) /= mask)

ScanCond(mask, cnt, count) ==
  (cnt > 0) /\ (FromBits(And(ToBits(mask), ToBits(count))) /= mask)

RECURSIVE ScanLoop(_, _, _)
ScanLoop(mask, cnt, count) ==
  IF ScanCond(mask, cnt, count)
  THEN ScanLoop(mask \div 2, cnt - 1, count)
  ELSE cnt

cpuid_bits_needed(count) == ScanLoop(128, 8, count)

BitsInit ==
  /\ b_count \in 0 .. 255
  /\ b_mask = 128
  /\ b_cnt = 8
  /\ b_steps = 0
  /\ b_pc = "scan"

\* one iteration of the while loop: mask >>= 1; cnt -= 1
ScanStep ==
  /\ b_pc = "scan"
  /\ ScanCond(b_mask, b_cnt, b_count)
  /\ b_mask' = b_mask \div 2
  /\ b_cnt' = b_cnt - 1
  /\ b_steps' = b_steps + 1
  /\ UNCHANGED <<b_count, b_pc>>
  /\ UNCHANGED <<hwVars, mainVars, xapicVars, x2Vars, collVars, decVars>>

\* the loop ends and cnt is returned
ScanReturn ==
  /\ b_pc = "scan"
  /\ ~ScanCond(b_mask, b_cnt, b_count)
  /\ b_pc' = "returned"
  /\ UNCHANGED <<b_count, b_mask, b_cnt, b_steps>>
  /\ UNCHANGED <<hwVars, mainVars, xapicVars, x2Vars, collVars, decVars>>

----------------------------------------------------------------------------
(* The mask and decomposition arithmetic of enumerate_with_x2apic_ids *)

MAX32 == Word(U32Bits)

\* lines 94-96 with the core mask left un-xored (it then overlaps the smt mask)
ComputeMasks_NoXor(smt_shift, core_shift) ==
  [smt  |-> Not(Shl(MAX32, smt_shift, U32Bits), U32Bits),
   core |-> Not(Shl(MAX32, core_shift, U32Bits), U32Bits),
   pkg  |-> Shl(MAX32, core_shift, U32Bits)]

\* lines 94-96: smt_select_mask, core_select_mask, pkg_select_mask
ComputeMasks(smt_shift, core_shift) ==
  LET smt == Not(Shl(MAX32, smt_shift, U32Bits), U32Bits) IN
  [smt  |-> smt,
   core |-> Xor(Not(Shl(MAX32, core_shift, U32Bits), U32Bits), smt),
   pkg  |-> Shl(MAX32, core_shift, U32Bits)]

\* lines 98-100 with the core field left unshifted
Decompose_NoShift(id, masks, smt_shift, core_shift) ==
  [smt  |-> And(id, masks.smt),
   core |-> And(id, masks.core),
   pkg  |-> Shr(And(id, masks.pkg), core_shift)]

\* lines 98-100: smt_id, core_id, pkg_id
Decompose(id, masks, smt_shift, core_shift) ==
  [smt  |-> And(id, masks.smt),
   core |-> Shr(And(id, masks.core), smt_shift),
   pkg  |-> Shr(And(id, masks.pkg), core_shift)]

\* the raw id a (pkg, core, smt) triple stands for
Compose(f, smt_shift, core_shift) ==
  Shl(f.pkg, core_shift, U32Bits) \cup Shl(f.core, smt_shift, U32Bits) \cup f.smt

\* sampled values of a field that is w bits wide
FieldSamples(w) ==
  {x \in {ToBits(v) : v \in 0 .. (MaxField - 1)} : x \subseteq Word(w)} \cup {Word(w)}

NoFields == [pkg |-> {}, core |-> {}, smt |-> {}]

DecodeInit ==
  /\ d_smt_shift \in 0 .. (U32Bits - 1)
  /\ d_core_shift \in d_smt_shift .. (U32Bits - 1)
  /\ d_fields \in [pkg  : FieldSamples(U32Bits - d_core_shift),
                   core : FieldSamples(d_core_shift - d_smt_shift),
                   smt  : FieldSamples(d_smt_shift)]
  /\ d_id = Compose(d_fields, d_smt_shift, d_core_shift)
  /\ d_masks = NoFields
  /\ d_out = NoFields
  /\ d_pc = "masks"

DecodeMasks ==
  /\ d_pc = "masks"
  /\ d_masks' = ComputeMasks(d_smt_shift, d_core_shift)
  /\ d_pc' = "split"
  /\ UNCHANGED <<d_smt_shift, d_core_shift, d_fields, d_id, d_out>>
  /\ UNCHANGED <<hwVars, mainVars, xapicVars, x2Vars, collVars, bitsVars>>

DecodeSplit ==
  /\ d_pc = "split"
  /\ d_out' = Decompose(d_id, d_masks, d_smt_shift, d_core_shift)
  /\ d_pc' = "printed"
  /\ UNCHANGED <<d_smt_shift, d_core_shift, d_fields, d_id, d_masks>>
  /\ UNCHANGED <<hwVars, mainVars, xapicVars, x2Vars, collVars, bitsVars>>

----------------------------------------------------------------------------
(* u8 arithmetic of the legacy path.  An operation that can overflow gives   *)
(* <<v>> for its value and <<>> for a panic: a build with overflow checks    *)
(* (dbg) panics, a build without them wraps.                                 *)

MAX8 == Word(U8Bits)

\* u8::next_power_of_two
next_power_of_two(x, dbg) ==
  IF x <= 128
  THEN <<CHOOSE p \in {2 ^ i : i \in 0 .. 7} :
            p >= x /\ \A q \in {2 ^ i : i \in 0 .. 7} : q >= x => p <= q>>
  ELSE IF dbg THEN <<>> ELSE <<0>>

\* a - b on u8
SubU8(a, b, dbg) ==
  IF a >= b THEN <<a - b>> ELSE IF dbg THEN <<>> ELSE <<a - b + 256>>

\* x << s and x >> s on u8: the shift amount must stay below the width
ShlU8(x, s, dbg) ==
  IF s < U8Bits THEN <<Shl(x, s, U8Bits)>>
  ELSE IF dbg THEN <<>> ELSE <<Shl(x, s % U8Bits, U8Bits)>>

ShrU8(x, s, dbg) ==
  IF s < U8Bits THEN <<Shr(x, s)>>
  ELSE IF dbg THEN <<>> ELSE <<Shr(x, s % U8Bits)>>

\* lines 159-161: the argument of the first cpuid_bits_needed call
SmtWidthArg(logical, cores, dbg) ==
  LET p == next_power_of_two(logical, dbg) IN
  IF p = <<>> \/ cores = 0 THEN <<>>
  ELSE SubU8(p[1] \div cores, 1, dbg)

\* lines 159-162: smt_mask_width and smt_select_mask
SmtWidthAndMask(logical, cores, dbg) ==
  LET a == SmtWidthArg(logical, cores, dbg) IN
  IF a = <<>> THEN [panic |-> TRUE, width |-> 0, mask |-> {}]
  ELSE LET w == cpuid_bits_needed(a[1])
           m == ShlU8(MAX8, w, dbg) IN
       IF m = <<>> THEN [panic |-> TRUE, width |-> w, mask |-> {}]
       ELSE [panic |-> FALSE, width |-> w, mask |-> Not(m[1], U8Bits)]

\* lines 163-166: core_mask_width, core_only_select_mask and pkg_select_mask
CoreWidthAndMasks(cores, smt_width, smt_mask, dbg) ==
  LET a == SubU8(cores, 1, dbg) IN
  IF a = <<>> THEN [panic |-> TRUE, width |-> 0, core |-> {}, pkg |-> {}]
  ELSE LET w == cpuid_bits_needed(a[1])
           m == ShlU8(MAX8, w + smt_width, dbg) IN
       IF m = <<>> THEN [panic |-> TRUE, width |-> w, core |-> {}, pkg |-> {}]
       ELSE [panic |-> FALSE, width |-> w,
             core |-> Xor(Not(m[1], U8Bits), smt_mask), pkg |-> m[1]]

\* all_xapic_ids.sort_unstable() / all_x2apic_ids.sort_unstable()
RECURSIVE SortAsc(_)
SortAsc(s) ==
  IF s = <<>> THEN <<>>
  ELSE LET i == CHOOSE j \in 1 .. Len(s) : \A k \in 1 .. Len(s) : s[j] <= s[k]
       IN <<s[i]>> \o SortAsc(SubSeq(s, 1, i - 1) \o SubSeq(s, i + 1, Len(s)))

\* lines 173-175 for one id; <<>> when a shift overflows
XapicDecodeOne(id, smt_mask, core_mask, pkg_mask, smt_width, core_width, dbg) ==
  LET c == ShrU8(And(ToBits(id), core_mask), smt_width, dbg)
      p == ShrU8(And(ToBits(id), pkg_mask), core_width + smt_width, dbg) IN
  IF c = <<>> \/ p = <<>> THEN <<>>
  ELSE <<[id |-> id, pkg |-> FromBits(p[1]), core |-> FromBits(c[1]),
          smt |-> FromBits(And(ToBits(id), smt_mask))]>>

\* lines 94-105 for one id
X2apicDecodeOne(id, smt_shift, core_shift) ==
  LET d == Decompose(ToBits(id), ComputeMasks(smt_shift, core_shift),
                     smt_shift, core_shift) IN
  [id |-> id, pkg |-> FromBits(d.pkg), core |-> FromBits(d.core),
   smt |-> FromBits(d.smt)]

----------------------------------------------------------------------------
(* The machine *)

ShiftValues == {1, 4}

\* the levels the extended-topology iterator can yield
LevelValues ==
  {[type |-> t, shift |-> s] : t \in {"SMT", "Core"}, s \in ShiftValues}
    \cup {[type |-> "Other", shift |-> 5]}

\* cpuid.get_extended_topology_info(): None, or the levels the iterator yields
Topologies ==
  {None} \cup {Some(t) : t \in UNION {[1 .. n -> LevelValues] : n \in 0 .. MaxLevels}}

\* what cpuid.get_processor_capacity_feature_info() can return
Capacities == {None, Some([num_phys_threads |-> 8, apic_id_size |-> 4])}
\* what cpuid.get_cache_parameters() can return: max_cores_for_package of each entry
Caches == {None, Some(<<4, 2>>)}
\* what cpuid.get_feature_info() can return
Features == {None, Some([max_logical_processor_ids |-> 8])}

\* core_affinity::get_core_ids()
CoreIdLists == {None} \cup {Some([i \in 1 .. n |-> i]) : n \in 1 .. MaxCpus}

\* the APIC id (and x2APIC id) of a logical processor; processor 2 has id 0
ApicId(c) == IF c = 2 THEN 0 ELSE IF c = 1 THEN 16 ELSE 14 + c

NumCpus == IF core_ids = None THEN 0 ELSE Len(core_ids[1])
Units == 1 .. NumCpus

Supported(t) == t \in {"SMT", "Core"}

PanicTopology == "Topology category not supported."
PanicCpu == "Example does not support this CPU"
PanicUnwrap == "called Option::unwrap() on a None value"
PanicArith == "arithmetic overflow"

MainIdle ==
  /\ pc = "idle" /\ panic_msg = "" /\ calls = <<>> /\ mainIdx = 0

XapicIdle ==
  /\ limits = <<0, 0>>
  /\ smt_mask_width = 0 /\ core_mask_width = 0
  /\ smt_select_mask = {} /\ core_only_select_mask = {} /\ pkg_select_mask = {}
  /\ xapic_out = <<>>

X2Idle ==
  /\ scanIdx = 0 /\ smt_x2apic_shift = 0 /\ core_x2apic_shift = 0
  /\ x2apic_out = <<>>

CollIdle ==
  /\ gmode = "none" /\ ids = <<>> /\ nspawned = 0 /\ njoined = 0
  /\ upc = <<>> /\ pinRes = <<>> /\ readRes = <<>> /\ ranOn = <<>> /\ ret = <<>>

HwIdle ==
  /\ topology = None /\ core_ids = None /\ debug_build = TRUE

BitsIdle ==
  /\ b_count = 0 /\ b_mask = 0 /\ b_cnt = 0 /\ b_steps = 0 /\ b_pc = "idle"

DecodeIdle ==
  /\ d_smt_shift = 0 /\ d_core_shift = 0 /\ d_fields = NoFields /\ d_id = {}
  /\ d_masks = NoFields /\ d_out = NoFields /\ d_pc = "idle"

Panic(msg) ==
  /\ pc' = "panic"
  /\ panic_msg' = msg

----------------------------------------------------------------------------
(* main *)

Levels == topology[1]
NumLevels == IF topology = None THEN 0 ELSE Len(Levels)

\* lines 197-210 with an unknown level printed like any other
MainTopoLevel_Skip ==
  /\ pc = "main_topo"
  /\ topology /= None
  /\ mainIdx < Len(Levels)
  /\ mainIdx' = mainIdx + 1
  /\ UNCHANGED <<pc, panic_msg, calls, hwVars, xapicVars, x2Vars, collVars,
                 bitsVars, decVars>>

\* lines 191-212: one iteration of the loop over the reversed levels
MainTopoLevel ==
  /\ pc = "main_topo"
  /\ topology /= None
  /\ mainIdx < Len(Levels)
  /\ IF Supported(Levels[Len(Levels) - mainIdx].type)
     THEN /\ mainIdx' = mainIdx + 1
          /\ UNCHANGED <<pc, panic_msg>>
     ELSE /\ Panic(PanicTopology)
          /\ UNCHANGED mainIdx
  /\ UNCHANGED <<calls, hwVars, xapicVars, x2Vars, collVars, bitsVars, decVars>>

\* the loop is over, or the leaf is absent and line 192 has printed so
MainTopoFinished ==
  /\ pc = "main_topo"
  /\ mainIdx = NumLevels

\* main choosing one path by the presence of the extended-topology leaf
MainCallXapic_ByMode ==
  /\ MainTopoFinished
  /\ IF topology = None
     THEN /\ calls' = Append(calls, "enumerate_with_xapic_ids")
          /\ pc' = "xapic_limits"
     ELSE /\ calls' = Append(calls, "enumerate_with_x2apic_ids")
          /\ pc' = "x2_scan"
  /\ UNCHANGED <<panic_msg, mainIdx, hwVars, xapicVars, x2Vars, collVars,
                 bitsVars, decVars>>

\* line 215: enumerate_with_xapic_ids()
MainCallXapic ==
  /\ MainTopoFinished
  /\ calls' = Append(calls, "enumerate_with_xapic_ids")
  /\ pc' = "xapic_limits"
  /\ UNCHANGED <<panic_msg, mainIdx, hwVars, xapicVars, x2Vars, collVars,
                 bitsVars, decVars>>

\* line 218: enumerate_with_x2apic_ids()
MainCallX2apic ==
  /\ pc = "main_x2"
  /\ calls' = Append(calls, "enumerate_with_x2apic_ids")
  /\ pc' = "x2_scan"
  /\ UNCHANGED <<panic_msg, mainIdx, hwVars, xapicVars, x2Vars, collVars,
                 bitsVars, decVars>>

----------------------------------------------------------------------------
(* gather_all_xapic_ids / gather_all_x2apic_ids *)

\* lines 18 / 45: get_core_ids().unwrap(), then the lazy map over the ids
StartGather(mode) ==
  IF core_ids = None
  THEN /\ Panic(PanicUnwrap)
       /\ UNCHANGED collVars
  ELSE /\ pc' = "gathering"
       /\ UNCHANGED panic_msg
       /\ gmode' = mode
       /\ ids' = <<>>
       /\ nspawned' = 0
       /\ njoined' = 0
       /\ upc' = [u \in Units |-> "unspawned"]
       /\ pinRes' = [u \in Units |-> "none"]
       /\ readRes' = [u \in Units |-> "none"]
       /\ ranOn' = [u \in Units |-> 0]
       /\ ret' = [u \in Units |-> 0]

\* the handles collected first and joined afterwards
Spawn_Eager ==
  /\ pc = "gathering"
  /\ nspawned < NumCpus
  /\ nspawned' = nspawned + 1
  /\ upc' = [upc EXCEPT ![nspawned + 1] = "spawned"]
  /\ UNCHANGED <<gmode, ids, njoined, pinRes, readRes, ranOn, ret>>
  /\ UNCHANGED <<hwVars, mainVars, xapicVars, x2Vars, bitsVars, decVars>>

\* lines 23-24 / 50-51: the map closure is called for the next id only after
\* the join of the previous one has returned
Spawn ==
  /\ pc = "gathering"
  /\ nspawned < NumCpus
  /\ nspawned = njoined
  /\ nspawned' = nspawned + 1
  /\ upc' = [upc EXCEPT ![nspawned + 1] = "spawned"]
  /\ UNCHANGED <<gmode, ids, njoined, pinRes, readRes, ranOn, ret>>
  /\ UNCHANGED <<hwVars, mainVars, xapicVars, x2Vars, bitsVars, decVars>>

\* lines 26 / 53: core_affinity::set_for_current(id); its outcome is not looked at
UnitPin(u) ==
  /\ pc = "gathering"
  /\ upc[u] = "spawned"
  /\ \E r \in {"ok", "failed"} : pinRes' = [pinRes EXCEPT ![u] = r]
  /\ upc' = [upc EXCEPT ![u] = "pinned"]
  /\ UNCHANGED <<gmode, ids, nspawned, njoined, readRes, ranOn, ret>>
  /\ UNCHANGED <<hwVars, mainVars, xapicVars, x2Vars, bitsVars, decVars>>

\* how the read of a unit can end: the leaf is there, the leaf is absent
\* (map_or_else gives 0), or, on the extended path, the level iterator is
\* empty and the unwrap of line 58 panics
ReadOutcomes(mode) ==
  IF mode = "xapic" THEN {"ok", "absent"} ELSE {"ok", "absent", "crash"}

\* the processor a unit's read executes on: its own after a pin that took
\* effect, any processor otherwise (recorded only for a read that gives an id)
ReadCpus(u, outcome) ==
  IF pinRes[u] = "ok" \/ outcome /= "ok" THEN {core_ids[1][u]} ELSE Units

ReadBody(u) ==
  \E outcome \in ReadOutcomes(gmode) : \E cpu \in ReadCpus(u, outcome) :
    /\ readRes' = [readRes EXCEPT ![u] = outcome]
    /\ ranOn' = [ranOn EXCEPT ![u] = cpu]
    /\ ret' = [ret EXCEPT ![u] = IF outcome = "ok" THEN ApicId(cpu) ELSE 0]
    /\ upc' = [upc EXCEPT ![u] = IF outcome = "crash" THEN "crashed" ELSE "exited"]
    /\ UNCHANGED <<gmode, ids, nspawned, njoined, pinRes>>
    /\ UNCHANGED <<hwVars, mainVars, xapicVars, x2Vars, bitsVars, decVars>>

\* the read issued without waiting for the pin call
UnitRead_Unpinned(u) ==
  /\ pc = "gathering"
  /\ upc[u] \in {"spawned", "pinned"}
  /\ ReadBody(u)

\* lines 28-31 / 55-59: CpuId::new() and the read of the id
UnitRead(u) ==
  /\ pc = "gathering"
  /\ upc[u] = "pinned"
  /\ ReadBody(u)

JoinBody(u, v) ==
  /\ ids' = Append(ids, v)
  /\ njoined' = njoined + 1
  /\ upc' = [upc EXCEPT ![u] = "joined"]
  /\ pinRes' = [pinRes EXCEPT ![u] = "none"]
  /\ readRes' = [readRes EXCEPT ![u] = "none"]
  /\ ranOn' = [ranOn EXCEPT ![u] = 0]
  /\ ret' = [ret EXCEPT ![u] = 0]
  /\ UNCHANGED <<gmode, nspawned>>

\* .join().unwrap() in place of .join().unwrap_or(0)
Join_Unwrap ==
  /\ pc = "gathering"
  /\ njoined < nspawned
  /\ upc[njoined + 1] \in {"exited", "crashed"}
  /\ IF upc[njoined + 1] = "crashed"
     THEN /\ Panic(PanicUnwrap)
          /\ UNCHANGED <<calls, mainIdx, collVars>>
     ELSE /\ JoinBody(njoined + 1, ret[njoined + 1])
          /\ UNCHANGED mainVars
  /\ UNCHANGED <<hwVars, xapicVars, x2Vars, bitsVars, decVars>>

\* lines 33-34 / 61-62: .join().unwrap_or(0), and the value goes into the Vec
Join ==
  /\ pc = "gathering"
  /\ njoined < nspawned
  /\ upc[njoined + 1] \in {"exited", "crashed"}
  /\ JoinBody(njoined + 1,
              IF upc[njoined + 1] = "crashed" THEN 0 ELSE ret[njoined + 1])
  /\ UNCHANGED <<hwVars, mainVars, xapicVars, x2Vars, bitsVars, decVars>>

\* lines 36 / 64: collect() has taken every id; the Vec is returned
GatherReturn ==
  /\ pc = "gathering"
  /\ njoined = NumCpus
  /\ pc' = IF gmode = "xapic" THEN "xapic_sort" ELSE "x2_sort"
  /\ gmode' = "none"
  /\ nspawned' = 0
  /\ njoined' = 0
  /\ upc' = <<>> /\ pinRes' = <<>> /\ readRes' = <<>> /\ ranOn' = <<>> /\ ret' = <<>>
  /\ UNCHANGED <<ids, panic_msg, calls, mainIdx>>
  /\ UNCHANGED <<hwVars, xapicVars, x2Vars, bitsVars, decVars>>

----------------------------------------------------------------------------
(* enumerate_with_xapic_ids *)

\* lines 121-154, given what the three leaf queries return:
\* [panic |-> message or "", val |-> the two limits]
get_processor_limits(capacity, cache, feature) ==
  IF capacity /= None
  THEN IF capacity[1].num_phys_threads > 255
       THEN [panic |-> PanicUnwrap, val |-> <<0, 0>>]
       ELSE [panic |-> "",
             val |-> <<capacity[1].num_phys_threads, capacity[1].apic_id_size>>]
  ELSE IF cache /= None
  THEN [panic |-> "",
        val |-> <<IF feature = None THEN 1
                  ELSE feature[1].max_logical_processor_ids,
                  IF Len(cache[1]) > 0 THEN cache[1][1] % 256 ELSE 1>>]
  ELSE [panic |-> PanicCpu, val |-> <<0, 0>>]

\* line 157
XapicLimits ==
  /\ pc = "xapic_limits"
  /\ calls' = Append(calls, "get_processor_limits")
  /\ \E capacity \in Capacities, cache \in Caches, feature \in Features :
       LET r == get_processor_limits(capacity, cache, feature) IN
         IF r.panic /= ""
         THEN /\ Panic(r.panic)
              /\ UNCHANGED limits
         ELSE /\ limits' = r.val
              /\ pc' = "xapic_smt_width"
              /\ UNCHANGED panic_msg
  /\ UNCHANGED <<mainIdx, smt_mask_width, core_mask_width, smt_select_mask,
                 core_only_select_mask, pkg_select_mask, xapic_out>>
  /\ UNCHANGED <<hwVars, x2Vars, collVars, bitsVars, decVars>>

\* lines 159-162
XapicSmtWidth ==
  /\ pc = "xapic_smt_width"
  /\ LET r == SmtWidthAndMask(limits[1], limits[2], debug_build) IN
       /\ smt_mask_width' = r.width
       /\ smt_select_mask' = r.mask
       /\ IF r.panic
          THEN Panic(PanicArith)
          ELSE pc' = "xapic_core_width" /\ UNCHANGED panic_msg
  /\ UNCHANGED <<calls, mainIdx, limits, core_mask_width,
                 core_only_select_mask, pkg_select_mask, xapic_out>>
  /\ UNCHANGED <<hwVars, x2Vars, collVars, bitsVars, decVars>>

\* lines 163-166
XapicCoreWidth ==
  /\ pc = "xapic_core_width"
  /\ LET r == CoreWidthAndMasks(limits[2], smt_mask_width, smt_select_mask,
                                debug_build) IN
       /\ core_mask_width' = r.width
       /\ core_only_select_mask' = r.core
       /\ pkg_select_mask' = r.pkg
       /\ IF r.panic
          THEN Panic(PanicArith)
          ELSE pc' = "xapic_gather" /\ UNCHANGED panic_msg
  /\ UNCHANGED <<calls, mainIdx, limits, smt_mask_width, smt_select_mask,
                 xapic_out>>
  /\ UNCHANGED <<hwVars, x2Vars, collVars, bitsVars, decVars>>

\* line 169: gather_all_xapic_ids()
XapicCallGather ==
  /\ pc = "xapic_gather"
  /\ calls' = Append(calls, "gather_all_xapic_ids")
  /\ StartGather("xapic")
  /\ UNCHANGED <<mainIdx, hwVars, xapicVars, x2Vars, bitsVars, decVars>>

\* lines 170-181: sort, then decode and print every id
XapicDecode ==
  /\ pc = "xapic_sort"
  /\ LET sorted == SortAsc(ids)
         out == [i \in 1 .. Len(sorted) |->
                   XapicDecodeOne(sorted[i], smt_select_mask,
                                  core_only_select_mask, pkg_select_mask,
                                  smt_mask_width, core_mask_width, debug_build)]
         bad == {i \in 1 .. Len(sorted) : out[i] = <<>>} IN
       IF bad /= {}
       THEN /\ Panic(PanicArith)
            /\ xapic_out' = [i \in 1 .. ((CHOOSE b \in bad : \A c \in bad : b <= c) - 1)
                               |-> out[i][1]]
       ELSE /\ pc' = "main_x2"
            /\ xapic_out' = [i \in 1 .. Len(sorted) |-> out[i][1]]
            /\ UNCHANGED panic_msg
  /\ ids' = <<>>
  /\ UNCHANGED <<calls, mainIdx, limits, smt_mask_width, core_mask_width,
                 smt_select_mask, core_only_select_mask, pkg_select_mask>>
  /\ UNCHANGED <<gmode, nspawned, njoined, upc, pinRes, readRes, ranOn, ret>>
  /\ UNCHANGED <<hwVars, x2Vars, bitsVars, decVars>>

----------------------------------------------------------------------------
(* enumerate_with_x2apic_ids *)

\* lines 76-86 with a shift recorded only the first time its type is seen
X2ScanLevel_FirstWins ==
  /\ pc = "x2_scan"
  /\ topology /= None
  /\ scanIdx < Len(Levels)
  /\ scanIdx' = scanIdx + 1
  /\ LET level == Levels[scanIdx + 1] IN
       /\ smt_x2apic_shift' =
            IF level.type = "SMT" /\ smt_x2apic_shift = 0
            THEN level.shift ELSE smt_x2apic_shift
       /\ core_x2apic_shift' =
            IF level.type = "Core" /\ core_x2apic_shift = 0
            THEN level.shift ELSE core_x2apic_shift
  /\ UNCHANGED <<x2apic_out, mainVars, hwVars, xapicVars, collVars, bitsVars,
                 decVars>>

\* lines 72-88: one iteration of the loop over the levels
X2ScanLevel ==
  /\ pc = "x2_scan"
  /\ topology /= None
  /\ scanIdx < Len(Levels)
  /\ LET level == Levels[scanIdx + 1] IN
       IF Supported(level.type)
       THEN /\ scanIdx' = scanIdx + 1
            /\ smt_x2apic_shift' =
                 IF level.type = "SMT" THEN level.shift ELSE smt_x2apic_shift
            /\ core_x2apic_shift' =
                 IF level.type = "Core" THEN level.shift ELSE core_x2apic_shift
            /\ UNCHANGED <<pc, panic_msg>>
       ELSE /\ Panic(PanicTopology)
            /\ UNCHANGED <<scanIdx, smt_x2apic_shift, core_x2apic_shift>>
  /\ UNCHANGED <<x2apic_out, calls, mainIdx, hwVars, xapicVars, collVars,
                 bitsVars, decVars>>

\* line 91: gather_all_x2apic_ids(), after the scan or when the leaf is absent
X2CallGather ==
  /\ pc = "x2_scan"
  /\ scanIdx = NumLevels
  /\ calls' = Append(calls, "gather_all_x2apic_ids")
  /\ StartGather("x2apic")
  /\ UNCHANGED <<mainIdx, hwVars, xapicVars, x2Vars, bitsVars, decVars>>

\* lines 92-106: sort, then decode and print every id
X2Decode ==
  /\ pc = "x2_sort"
  /\ LET sorted == SortAsc(ids) IN
       x2apic_out' = [i \in 1 .. Len(sorted) |->
                        X2apicDecodeOne(sorted[i], smt_x2apic_shift,
                                        core_x2apic_shift)]
  /\ ids' = <<>>
  /\ pc' = "done"
  /\ UNCHANGED <<panic_msg, calls, mainIdx, scanIdx, smt_x2apic_shift,
                 core_x2apic_shift>>
  /\ UNCHANGED <<gmode, nspawned, njoined, upc, pinRes, readRes, ranOn, ret>>
  /\ UNCHANGED <<hwVars, xapicVars, bitsVars, decVars>>

----------------------------------------------------------------------------
(* Specifications *)

\* a run of the program on some machine
Init ==
  /\ topology \in Topologies
  /\ core_ids \in CoreIdLists
  /\ debug_build \in BOOLEAN
  /\ pc = "main_topo" /\ panic_msg = "" /\ calls = <<>> /\ mainIdx = 0
  /\ XapicIdle /\ X2Idle /\ CollIdle /\ BitsIdle /\ DecodeIdle

Next ==
  \/ MainTopoLevel
  \/ MainCallXapic
  \/ XapicLimits
  \/ XapicSmtWidth
  \/ XapicCoreWidth
  \/ XapicCallGather
  \/ XapicDecode
  \/ MainCallX2apic
  \/ X2ScanLevel
  \/ X2CallGather
  \/ X2Decode
  \/ Spawn
  \/ \E u \in Units : UnitPin(u)
  \/ \E u \in Units : UnitRead(u)
  \/ Join
  \/ GatherReturn

Spec == Init /\ [][Next]_vars

\* cpuid_bits_needed on every u8
InitBits ==
  /\ BitsInit
  /\ HwIdle /\ MainIdle /\ XapicIdle /\ X2Idle /\ CollIdle /\ DecodeIdle

NextBits == ScanStep \/ ScanReturn

SpecBits == InitBits /\ [][NextBits]_vars

\* the width computation of enumerate_with_xapic_ids on every pair of limits
\* with 1 <= max_cores_per_package <= max_logical_processor_ids <= MaxLogical
InitLegacy ==
  /\ topology = None /\ core_ids = None
  /\ debug_build \in BOOLEAN
  /\ pc = "xapic_smt_width" /\ panic_msg = "" /\ calls = <<>> /\ mainIdx = 0
  /\ limits \in {<<l, c>> : l \in 1 .. MaxLogical, c \in 1 .. MaxLogical}
  /\ limits[2] <= limits[1]
  /\ smt_mask_width = 0 /\ core_mask_width = 0
  /\ smt_select_mask = {} /\ core_only_select_mask = {} /\ pkg_select_mask = {}
  /\ xapic_out = <<>>
  /\ X2Idle /\ CollIdle /\ BitsIdle /\ DecodeIdle

NextLegacy == XapicSmtWidth \/ XapicCoreWidth

SpecLegacy == InitLegacy /\ [][NextLegacy]_vars

\* the masks and the decomposition on sampled ids for every pair of shifts
InitDecode ==
  /\ DecodeInit
  /\ HwIdle /\ MainIdle /\ XapicIdle /\ X2Idle /\ CollIdle /\ BitsIdle

NextDecode == DecodeMasks \/ DecodeSplit

SpecDecode == InitDecode /\ [][NextDecode]_vars

----------------------------------------------------------------------------
(* Properties *)

Range(f) == {f[i] : i \in DOMAIN f}
IsPrefix(a, b) == Len(a) <= Len(b) /\ a = SubSeq(b, 1, Len(a))
MaxOf(S) == CHOOSE x \in S : \A y \in S : y <= x
MinOf(S) == CHOOSE x \in S : \A y \in S : x <= y

\* unit u is taken by the join of this step
Joining(u) ==
  /\ upc[u] \in {"exited", "crashed"}
  /\ u \in DOMAIN upc'
  /\ upc'[u] = "joined"

\* units that have been spawned and whose join has not returned
Unjoined == {u \in DOMAIN upc : upc[u] \in {"spawned", "pinned", "exited", "crashed"}}
\* units that have been spawned and have not yet completed
Running == {u \in DOMAIN upc : upc[u] \in {"spawned", "pinned"}}

\* C1: in both collectors, a unit's read has been issued only after its own
\* pin call has returned: no unit has a read outcome without a pin outcome.
C1_PinBeforeRead ==
  \A u \in DOMAIN upc : readRes[u] /= "none" => pinRes[u] /= "none"

C1_Witness ==
  /\ gmode = "x2apic"
  /\ NumCpus = 2
  /\ upc[2] = "exited"
  /\ pinRes[2] = "ok"
  /\ readRes[2] = "ok"

\* C2 as amended: the collector probes the processors one at a time.  A unit
\* is spawned only after every earlier unit has been joined, so at most one
\* unit is ever spawned and not yet joined, and no two units run together.
C2_OneUnitAtATime ==
  /\ Cardinality(Unjoined) <= 1
  /\ Cardinality(Running) <= 1
  /\ \A u \in DOMAIN upc :
       upc[u] /= "unspawned" => \A v \in 1 .. (u - 1) : upc[v] = "joined"

C2_Witness ==
  /\ pc = "gathering"
  /\ NumCpus >= 2
  /\ upc[1] = "joined"
  /\ upc[2] \in {"spawned", "pinned"}

\* C2 as claimed: with at least two processors the units are probed in
\* parallel, the collector not waiting for one unit to finish before it
\* starts the next: whenever it waits in a join, every unit has been spawned.
C2_Original ==
  (pc = "gathering" /\ NumCpus >= 2 /\ njoined < nspawned) => nspawned = NumCpus

\* C3 as amended: each unit's entry depends on that unit alone. The join of a
\* unit appends exactly one entry and leaves the earlier ones as they are: 0
\* if the unit's read found no leaf or the unit crashed, and otherwise the id
\* of the processor the read ran on, which is the unit's own processor when
\* its pin took effect; a failed pin is not noticed and gives no sentinel.
\* The collector returns one entry per enumerated processor, and nothing
\* aborts the program once the units are being run.
C3_FailureIsolation ==
  /\ [][\A u \in DOMAIN upc :
          Joining(u) =>
            /\ ids' = Append(ids, IF readRes[u] \in {"absent", "crash"}
                                  THEN 0 ELSE ApicId(ranOn[u]))
            /\ Len(ids) = u - 1
            /\ (pinRes[u] = "ok" => ranOn[u] = core_ids[1][u])]_vars
  /\ [](pc \in {"xapic_sort", "x2_sort"} => Len(ids) = NumCpus)
  /\ [](pc = "panic" => gmode = "none")

C3_Witness ==
  /\ gmode = "x2apic"
  /\ NumCpus = 2
  /\ ids = <<16>>
  /\ upc[2] = "crashed"
  /\ pinRes[2] = "ok"

\* C3 as claimed: a unit whose pin failed, whose read found no leaf or which
\* crashed contributes exactly the sentinel 0.
C3_Original ==
  [][\A u \in DOMAIN upc :
       (Joining(u) /\ (pinRes[u] = "failed" \/ readRes[u] \in {"absent", "crash"}))
         => ids' = Append(ids, 0)]_vars

AllCalls ==
  <<"enumerate_with_xapic_ids", "get_processor_limits", "gather_all_xapic_ids",
    "enumerate_with_x2apic_ids", "gather_all_x2apic_ids">>

\* C4 as amended: main selects no mode. The calls are made in one fixed order
\* whatever the extended-topology leaf says: the legacy path with its limits
\* resolution first, then the extended path. A run that ends normally has
\* executed both paths, the extended collection and decoding included when
\* the leaf is absent (both shifts are then 0); and a failure of the legacy
\* limits resolution ends the run before the extended path has started, also
\* when the leaf is present.
C4_BothPathsInOrder ==
  /\ IsPrefix(calls, AllCalls)
  /\ (pc = "done" =>
        /\ calls = AllCalls
        /\ Len(xapic_out) = NumCpus
        /\ Len(x2apic_out) = NumCpus
        /\ (topology = None => smt_x2apic_shift = 0 /\ core_x2apic_shift = 0))
  /\ (panic_msg = PanicCpu =>
        /\ pc = "panic"
        /\ calls = SubSeq(AllCalls, 1, 2)
        /\ x2apic_out = <<>>)

C4_Witness ==
  /\ pc = "done"
  /\ topology /= None
  /\ NumCpus = 2
  /\ Len(xapic_out) = 2
  /\ Len(x2apic_out) = 2

\* C4 as claimed: exactly one path runs, the extended one when the leaf is
\* present and the legacy one (with limits resolution) only when it is absent;
\* the extended collection is never performed without the leaf, and a failed
\* limits resolution cannot abort a run in which the leaf is present.
C4_Original ==
  /\ (topology /= None => "enumerate_with_xapic_ids" \notin Range(calls))
  /\ (topology = None =>
        "gather_all_x2apic_ids" \notin Range(calls) /\ x2apic_out = <<>>)
  /\ ~(topology /= None /\ panic_msg = PanicCpu)

\* C5: for 0 <= smt_shift <= core_shift <= 31 the three masks are pairwise
\* disjoint and together cover all 32 bits.
C5_MasksPartition ==
  d_pc \in {"split", "printed"} =>
    /\ And(d_masks.smt, d_masks.core) = {}
    /\ And(d_masks.smt, d_masks.pkg) = {}
    /\ And(d_masks.core, d_masks.pkg) = {}
    /\ d_masks.smt \cup d_masks.core \cup d_masks.pkg = MAX32

C5_Witness ==
  /\ d_pc = "split"
  /\ d_smt_shift = 1
  /\ d_core_shift = 4
  /\ d_masks.smt = {0}
  /\ d_masks.core = {1, 2, 3}
  /\ d_masks.pkg = 4 .. 31

C6_Examples ==
  {<<0, 0, 0, 0>>, <<1, 0, 0, 1>>, <<16, 1, 0, 0>>, <<17, 1, 0, 1>>,
   <<32, 2, 0, 0>>, <<33, 2, 0, 1>>}

\* C6: decomposing the id composed of (pkg, core, smt), each within its field,
\* gives (pkg, core, smt) back; with smt_shift = 1 and core_shift = 4 the ids
\* 0, 1, 16, 17, 32, 33 decode to (0,0,0), (0,0,1), (1,0,0), (1,0,1), (2,0,0),
\* (2,0,1).
C6_RoundTrip ==
  d_pc = "printed" =>
    /\ d_out = d_fields
    /\ (d_smt_shift = 1 /\ d_core_shift = 4) =>
         \A e \in C6_Examples :
           d_id = ToBits(e[1]) =>
             d_out = [pkg |-> ToBits(e[2]), core |-> ToBits(e[3]),
                      smt |-> ToBits(e[4])]

C6_Witness ==
  /\ d_pc = "printed"
  /\ d_smt_shift = 1
  /\ d_core_shift = 4
  /\ d_id = ToBits(33)
  /\ d_out = [pkg |-> ToBits(2), core |-> {}, smt |-> ToBits(1)]

\* the number of leading zero bits of a u8 (8 for 0)
LeadingZeros(count) ==
  U8Bits - MinOf({k \in 0 .. U8Bits : count < 2 ^ k})

\* C7 as amended: the scan takes as many steps as count has leading zero bits
\* (8 when count is 0), and cpuid_bits_needed(count) is 8 minus that number,
\* the bit length of count: bits_needed(0) = 0, bits_needed(255) = 8 and
\* bits_needed(1) = 1.
C7_BitLength ==
  b_pc = "returned" =>
    /\ b_steps = LeadingZeros(b_count)
    /\ b_cnt = U8Bits - b_steps
    /\ b_cnt = cpuid_bits_needed(b_count)
    /\ (b_count = 0 => b_cnt = 0)
    /\ (b_count = 255 => b_cnt = 8)
    /\ (b_count = 1 => b_cnt = 1)

C7_Witness ==
  /\ b_pc = "returned"
  /\ b_count = 1
  /\ b_steps = 7
  /\ b_cnt = 1

\* C7 as claimed: cpuid_bits_needed(count) is the number of scan steps taken
\* before a set bit is found, the number of leading zero bits of count:
\* bits_needed(0) = 8, bits_needed(255) = 0 and bits_needed(1) = 7.
C7_Original ==
  b_pc = "returned" =>
    /\ b_steps = LeadingZeros(b_count)
    /\ b_cnt = b_steps
    /\ (b_count = 0 => b_cnt = 8)
    /\ (b_count = 255 => b_cnt = 0)
    /\ (b_count = 1 => b_cnt = 7)

HasUnknown ==
  /\ topology /= None
  /\ \E i \in 1 .. Len(Levels) : ~Supported(Levels[i].type)

\* C8: a level that is neither SMT nor Core is fatal. No loop over the levels
\* ever gets past such a level, and a run whose level sequence holds one ends
\* in the panic "Topology category not supported." without having produced
\* any entry of the extended path.
C8_UnknownLevelFatal ==
  /\ \A j \in 1 .. mainIdx : Supported(Levels[Len(Levels) - j + 1].type)
  /\ \A j \in 1 .. scanIdx : Supported(Levels[j].type)
  /\ HasUnknown =>
       /\ x2apic_out = <<>>
       /\ "gather_all_x2apic_ids" \notin Range(calls)
       /\ pc \in {"main_topo", "panic"}
       /\ (pc = "panic" => panic_msg = PanicTopology)

C8_Witness ==
  /\ HasUnknown
  /\ pc = "panic"
  /\ panic_msg = PanicTopology
  /\ mainIdx = 1
  /\ x2apic_out = <<>>

\* the shift of the last (first) of the first n levels that has type t; 0 if none
LastShift(t, n) ==
  LET S == {i \in 1 .. n : Levels[i].type = t} IN
  IF S = {} THEN 0 ELSE Levels[MaxOf(S)].shift

FirstShift(t, n) ==
  LET S == {i \in 1 .. n : Levels[i].type = t} IN
  IF S = {} THEN 0 ELSE Levels[MinOf(S)].shift

\* C9 as amended: over a sequence of SMT and Core levels the recorded
\* smt_shift is the shift of the last SMT level in sequence order and the
\* recorded core_shift that of the last Core level: a later level of a type
\* already seen overwrites the shift, and a type with no level leaves it 0.
C9_LastLevelWins ==
  /\ smt_x2apic_shift = LastShift("SMT", scanIdx)
  /\ core_x2apic_shift = LastShift("Core", scanIdx)

C9_Witness ==
  /\ pc = "done"
  /\ topology = Some(<<[type |-> "SMT", shift |-> 1], [type |-> "SMT", shift |-> 4]>>)
  /\ smt_x2apic_shift = 4
  /\ core_x2apic_shift = 0

\* C9 as claimed: once the levels are scanned, smt_shift is the shift of the
\* first SMT level and core_shift the shift of the first Core level.
C9_Original ==
  scanIdx = NumLevels =>
    /\ smt_x2apic_shift = FirstShift("SMT", scanIdx)
    /\ core_x2apic_shift = FirstShift("Core", scanIdx)

\* C10: for 1 <= max_cores_per_package <= max_logical_processor_ids <= 128 the
\* two widths add up to at most 7, so no shift reaches the width of a u8.
C10_WidthBound ==
  smt_mask_width + core_mask_width <= 7

====
